---- MODULE Spec2Model ----
(***************************************************************************)
(* CrossFire: manager detection, candidate ranking, the sequential         *)
(* install/remove orchestrator and the concurrent search aggregator.       *)
(*                                                                         *)
(* Package strings are sequences of one-character strings, so that the     *)
(* prefix / substring / lower-case tests of the heuristics are computed.   *)
(***************************************************************************)
EXTENDS Integers, Sequences, FiniteSets, TLC

VARIABLES
    osType,         \* _os_type(): "linux" | "macos" | "windows" | "unknown"
    sysExecutable,  \* whether sys.executable is non-empty
    path,           \* the binaries shutil.which resolves on PATH
    pkg,            \* the package string of the call
    rankPc,         \* ranker harness: "init" | "done"
    ranked,         \* the list _ordered_install_manager_candidates returned, if called
    op,             \* "none" | "install" | "remove"
    mgrArg,         \* preferred_manager / manager argument ("" when not given)
    pc,             \* position of install_package / remove_package
    installed,      \* the availability map the call detected
    candidates,     \* the candidate list of the call
    idx,            \* index of the candidate the loop is at
    attempts,       \* the attempts list
    invoked,        \* managers whose command was spawned, in order
    inflight,       \* managers whose subprocess is running
    rcAttempt,      \* run_command: the `attempt` loop variable
    rcResult,       \* run_command: the RunResult it returned
    db,             \* rows of installed_packages
    dbCalls,        \* calls of package_db.add_package / remove_package
    faults,         \* exceptional outcomes so far in the call
    result,         \* "pending" | TRUE | FALSE: the success flag returned
    sPc,            \* search: "idle" | "collect" | "shutdown" | "returned" | "raised"
    sArg,           \* search: the manager argument ("" when not given)
    sLimit,         \* search: the limit argument
    sTargets,       \* search: target_managers
    task,           \* search: state of each manager's future
    taskOut,        \* search: the list each finished task returned
    yielded,        \* search: managers whose future as_completed has yielded
    allResults,     \* search: all_results
    sReturn,        \* search: the list returned
    expiredRunning, \* search: the tasks running when the overall wait expired
    imArg,          \* install_manager: the id, lower-cased
    imPc,           \* install_manager: "idle" | "popen" | "running" | "returned" | "done" | "raised"
    imAttempt,      \* install_manager: the `attempt` loop variable of its run_command
    imSpawned,      \* install_manager: the commands it has spawned
    imRes,          \* install_manager: the RunResult of its run_command
    imResult,       \* install_manager: "pending" | TRUE | FALSE, the value returned
    bulkFile,       \* the file: whether it exists, can be read, its package lines
    bulkPc,         \* bulk_install_from_file: "idle" | "loop" | "done"
    bulkIdx,        \* bulk_install_from_file: index of the line the loop is at
    bulkAttempted,  \* bulk_install_from_file: the lines given to install_package
    bulkReturn,     \* bulk_install_from_file: the results dict, returned at the end
    jsonMode,       \* main: LOG.json_mode (--json)
    mainCmd,        \* main: the command of the invocation ("none": no main)
    exitCode        \* main: <<>> until it returns, then <<the exit code>>

\* ------------------------------------------------------------------ bounds

\* at most this many binaries are on PATH in the hosts the ranker is applied to
MaxOnPath == 3

\* at most this many binaries are on PATH in the hosts install/remove run on
MaxHostPath == 2

\* at most this many binaries are on PATH in the hosts search runs on
MaxSearchPath == 2

\* at most this many results in the list one search task returns
MaxResults == 2

\* at most this many package lines in the file of --install-from
MaxLines == 2

\* at most this many exceptional outcomes (builder / Popen / record store raising,
\* command timing out) in one install/remove call
MaxFaults == 1

\* ---------------------------------------------------------------- registry

\* MANAGER_INSTALL_HANDLERS.keys(), in dict (insertion) order
Registry ==
    <<"pip", "npm", "apt", "dnf", "yum", "pacman", "zypper", "apk",
      "brew", "choco", "winget", "snap", "flatpak">>

Managers == {Registry[i] : i \in 1..Len(Registry)}

\* commands.INSTALL_HANDLERS keys
INSTALL_HANDLERS == Managers

\* commands.REMOVE_HANDLERS keys
REMOVE_HANDLERS ==
    {"pip", "npm", "brew", "apt", "dnf", "yum", "pacman", "snap", "flatpak"}

OsTypes == {"linux", "macos", "windows", "unknown"}

\* the names shutil.which may be asked for, besides sys.executable
PythonAliases == <<"python3", "python", "py">>

Binaries == (Managers \ {"pip"}) \cup {"apt-get", "python3", "python", "py"}

\* ------------------------------------------------------------ string helpers

InSeq(x, s) == \E i \in 1..Len(s) : s[i] = x

NoDup(s) == \A i, j \in 1..Len(s) : i # j => s[i] # s[j]

RECURSIVE SelectIn(_, _)
SelectIn(s, S) ==
    IF s = <<>> THEN <<>>
    ELSE IF Head(s) \in S THEN <<Head(s)>> \o SelectIn(Tail(s), S)
    ELSE SelectIn(Tail(s), S)

UpperChars ==
    <<"A","B","C","D","E","F","G","H","I","J","K","L","M",
      "N","O","P","Q","R","S","T","U","V","W","X","Y","Z">>

LowerChars ==
    <<"a","b","c","d","e","f","g","h","i","j","k","l","m",
      "n","o","p","q","r","s","t","u","v","w","x","y","z">>

LowerChar(c) ==
    IF \E i \in 1..Len(UpperChars) : UpperChars[i] = c
    THEN LowerChars[CHOOSE i \in 1..Len(UpperChars) : UpperChars[i] = c]
    ELSE c

\* str.lower()
Lower(s) == [i \in 1..Len(s) |-> LowerChar(s[i])]

\* str.startswith(p)
StartsWith(s, p) == Len(p) <= Len(s) /\ SubSeq(s, 1, Len(p)) = p

\* `sub in s`
Contains(s, sub) ==
    \E i \in 1..(Len(s) - Len(sub) + 1) : SubSeq(s, i, i + Len(sub) - 1) = sub

\* ---------------------------------------------------------------- detection

\* shutil.which(cmd): sys.executable is the path of the running interpreter
Which(cmd, p) == cmd = "sys.executable" \/ cmd \in p

\* _get_python_commands(): first element of each command
GetPythonCommands(sysExe, p) ==
    (IF sysExe THEN <<"sys.executable">> ELSE <<>>)
        \o SelectIn(PythonAliases, {c \in Binaries : Which(c, p)})

\* _detect_installed_managers()
DetectInstalledManagers(sysExe, p) ==
    [name \in Managers |->
        IF name = "pip"
        THEN LET cmds == GetPythonCommands(sysExe, p)
             IN  \E i \in 1..Len(cmds) : Which(cmds[i], p)
        ELSE Which(name, p)]

\* ------------------------------------------------------------------- ranker

LinuxManagers ==
    << [manager |-> "apt",    commands |-> {"apt", "apt-get"}],
       [manager |-> "dnf",    commands |-> {"dnf"}],
       [manager |-> "yum",    commands |-> {"yum"}],
       [manager |-> "pacman", commands |-> {"pacman"}],
       [manager |-> "zypper", commands |-> {"zypper"}],
       [manager |-> "apk",    commands |-> {"apk"}] >>

\* _system_manager_priority()
SystemManagerPriority(ot, p) ==
    IF ot = "macos" THEN <<"brew", "snap", "flatpak">>
    ELSE IF ot = "windows" THEN <<"winget", "choco">>
    ELSE IF ot = "linux" THEN
        LET hits == {i \in 1..Len(LinuxManagers) :
                        \E c \in LinuxManagers[i].commands : Which(c, p)}
        IN  IF hits # {}
            THEN <<LinuxManagers[CHOOSE i \in hits : \A j \in hits : i <= j].manager,
                   "snap", "flatpak">>
            ELSE <<"snap", "flatpak">>
    ELSE <<"snap", "flatpak">>

PythonIndicators ==
    { <<"=","=">>, <<">","=">>, <<"<","=">>, <<"~","=">>, <<"!","=">>,
      <<"[">>, <<"]">> }

PythonCommon ==
    { <<"p","y">>, <<"d","j","a","n","g","o">>, <<"f","l","a","s","k">>,
      <<"n","u","m","p","y">>, <<"p","a","n","d","a","s">>,
      <<"r","e","q","u","e","s","t","s">>, <<"b","o","t","o","3">>,
      <<"t","e","n","s","o","r","f","l","o","w">>, <<"t","o","r","c","h">> }

\* _looks_like_python_pkg(pkg)
LooksLikePythonPkg(s) ==
    \/ \E ind \in PythonIndicators : Contains(s, ind)
    \/ \E prefix \in PythonCommon : StartsWith(Lower(s), prefix)

NpmCommon ==
    { <<"e","x","p","r","e","s","s">>, <<"r","e","a","c","t">>, <<"v","u","e">>,
      <<"a","n","g","u","l","a","r">>, <<"t","y","p","e","s","c","r","i","p","t">>,
      <<"e","s","l","i","n","t">>, <<"w","e","b","p","a","c","k">>,
      <<"l","o","d","a","s","h">>, <<"a","x","i","o","s">> }

\* _looks_like_npm_pkg(pkg)
LooksLikeNpmPkg(s) ==
    \/ StartsWith(s, <<"@">>)
    \/ Lower(s) \in NpmCommon

\* the loop of lines 124-126: system managers, installed and not yet placed
RECURSIVE AddSystemManagers(_, _, _)
AddSystemManagers(prefs, todo, inst) ==
    IF todo = <<>> THEN prefs
    ELSE AddSystemManagers(
            IF inst[Head(todo)] /\ ~InSeq(Head(todo), prefs)
            THEN Append(prefs, Head(todo)) ELSE prefs,
            Tail(todo), inst)

\* the loop with its membership test dropped: every installed manager is appended
RECURSIVE AddRemainingNoMembership(_, _, _)
AddRemainingNoMembership(prefs, todo, inst) ==
    IF todo = <<>> THEN prefs
    ELSE AddRemainingNoMembership(
            IF inst[Head(todo)] THEN Append(prefs, Head(todo)) ELSE prefs,
            Tail(todo), inst)

\* the loop with its availability test dropped: every manager not yet placed is appended
RECURSIVE AddRemainingIgnoringAvailability(_, _, _)
AddRemainingIgnoringAvailability(prefs, todo, inst) ==
    IF todo = <<>> THEN prefs
    ELSE AddRemainingIgnoringAvailability(
            IF ~InSeq(Head(todo), prefs) THEN Append(prefs, Head(todo)) ELSE prefs,
            Tail(todo), inst)

\* the loop of lines 129-131 left out: the list ends with the OS priority managers
AddNoRemaining(prefs, todo, inst) == prefs

\* the loop of lines 129-131: the remaining installed managers, in dict order
RECURSIVE AddRemainingManagers(_, _, _)
AddRemainingManagers(prefs, todo, inst) ==
    IF todo = <<>> THEN prefs
    ELSE AddRemainingManagers(
            IF inst[Head(todo)] /\ ~InSeq(Head(todo), prefs)
            THEN Append(prefs, Head(todo)) ELSE prefs,
            Tail(todo), inst)

\* the two heuristic tests in the other order: npm placed before pip
OrderedNpmBeforePython(s, inst, ot, p) ==
    LET py    == IF LooksLikePythonPkg(s) /\ inst["pip"] THEN <<"pip">> ELSE <<>>
        npm   == IF LooksLikeNpmPkg(s) /\ inst["npm"] THEN <<"npm">> ELSE <<>>
        prefs == AddSystemManagers(npm \o py, SystemManagerPriority(ot, p), inst)
    IN  AddRemainingManagers(prefs, Registry, inst)

\* _ordered_install_manager_candidates(pkg, inst)
OrderedInstallManagerCandidates(s, inst, ot, p) ==
    LET py    == IF LooksLikePythonPkg(s) /\ inst["pip"] THEN <<"pip">> ELSE <<>>
        npm   == IF LooksLikeNpmPkg(s) /\ inst["npm"] THEN <<"npm">> ELSE <<>>
        prefs == AddSystemManagers(py \o npm, SystemManagerPriority(ot, p), inst)
    IN  AddRemainingManagers(prefs, Registry, inst)

\* ------------------------------------------------------------------ inputs

\* package strings: by indicator, by prefix (case-insensitive), by "@", by exact
\* JS name, a JS name as a proper prefix, both heuristics, neither
RankPackages ==
    { <<"d","j","a","n","g","o","=","=","4",".","2">>,
      <<"P","y","Y","A","M","L">>,
      <<"@","a","n","g","u","l","a","r","/","c","l","i">>,
      <<"V","u","e">>,
      <<"v","u","e","x">>,
      <<"@","a","[","b","]">>,
      <<"f","o","o">> }

\* binaries the hosts of install/remove may have on PATH
HostBinaries == {"npm", "apt", "apt-get", "zypper", "snap", "python3"}

OrchPackages ==
    { <<"d","j","a","n","g","o","=","=","4",".","2">>,
      <<"@","a","n","g","u","l","a","r","/","c","l","i">>,
      <<"f","o","o">> }

\* values of --manager: absent, lower case, upper case, without remove handler, unknown
ManagerArgs == {"", "pip", "NPM", "apt", "zypper", "bogus"}

\* str.lower() on the manager arguments above
LowerStr(s) == IF s = "NPM" THEN "npm" ELSE IF s = "SNAP" THEN "snap" ELSE s

\* rows left in the record store by earlier runs
SeedDB ==
    { [name |-> <<"d","j","a","n","g","o","=","=","4",".","2">>,
       manager |-> "pip", version |-> "0.9.0"],
      [name |-> <<"d","j","a","n","g","o","=","=","4",".","2">>,
       manager |-> "apt", version |-> "installed"],
      [name |-> <<"f","o","o">>, manager |-> "npm", version |-> "installed"],
      [name |-> <<"b","a","r">>, manager |-> "apt", version |-> "installed"] }

\* ------------------------------------------------------------ record store

\* PackageDB.add_package: INSERT OR REPLACE under UNIQUE(name, manager)
AddPackage(rows, name, version, manager) ==
    {r \in rows : ~(r.name = name /\ r.manager = manager)}
        \cup {[name |-> name, manager |-> manager,
               version |-> IF version = "" THEN "unknown" ELSE version]}

\* the DELETE without its manager condition: every row of the name goes
DbRemoveByNameOnly(rows, name, manager) == {r \in rows : r.name # name}

\* PackageDB.remove_package(name, manager)
DbRemovePackage(rows, name, manager) ==
    IF manager # ""
    THEN {r \in rows : ~(r.name = name /\ r.manager = manager)}
    ELSE {r \in rows : r.name # name}

\* ------------------------------------------------------------- run_command

RunResult(ok, code, out, err) == [ok |-> ok, code |-> code, out |-> out, err |-> err]

NoResult == RunResult(FALSE, 0, "", "none")

\* what the command may print on success: nothing parseable, or a version
Outs == {"", "Successfully installed x-1.2.3 @1.2.3"}

\* _extract_package_version(output, manager)
ExtractPackageVersion(out, manager) ==
    IF manager \in {"pip", "npm", "apt", "dnf", "yum"} /\ out # ""
    THEN "1.2.3" ELSE "installed"

\* str(e) of an exception
StrE == "str(e)"

\* f"Exception: {str(e)}", the err of run_command's except branch
PopenError == "Exception: str(e)"

\* f"Command timed out after {timeout} seconds"
TimedOut == "Command timed out"

\* retries=0 of install_package's run_command call
InstallRetries == 0

\* retries=0 of remove_package's run_command call
RemoveRetries == 0

Retries == IF op = "install" THEN InstallRetries ELSE RemoveRetries

Current == candidates[idx]

orchVars ==
    <<op, mgrArg, pc, installed, candidates, idx, attempts, invoked, inflight,
      rcAttempt, rcResult, db, dbCalls, faults, result>>

envVars == <<osType, sysExecutable, path>>

rankVars == <<rankPc, ranked>>

searchVars ==
    <<sPc, sArg, sLimit, sTargets, task, taskOut, yielded, allResults, sReturn,
      expiredRunning>>

managerVars == <<imArg, imPc, imAttempt, imSpawned, imRes, imResult>>

bulkVars == <<bulkFile, bulkPc, bulkIdx, bulkAttempted, bulkReturn>>

mainVars == <<jsonMode, mainCmd, exitCode>>

cliVars == <<managerVars, bulkVars, mainVars>>

vars == <<envVars, pkg, rankVars, orchVars, searchVars, cliVars>>

\* subprocess.Popen(...) in run_command: the process starts, or Popen raises and
\* the except branch returns a failed RunResult once attempt == retries
RunPopen ==
    /\ pc = "popen"
    /\ \/ /\ inflight' = inflight \cup {Current}
          /\ invoked' = Append(invoked, Current)
          /\ pc' = "running"
          /\ UNCHANGED <<rcAttempt, rcResult, faults>>
       \/ /\ faults < MaxFaults
          /\ faults' = faults + 1
          /\ IF rcAttempt = Retries
             THEN /\ rcResult' = RunResult(FALSE, -1, "", PopenError)
                  /\ pc' = "returned"
                  /\ UNCHANGED rcAttempt
             ELSE /\ rcAttempt' = rcAttempt + 1
                  /\ UNCHANGED <<pc, rcResult>>
          /\ UNCHANGED <<inflight, invoked>>
    /\ UNCHANGED <<envVars, cliVars, pkg, rankVars, searchVars, op, mgrArg, installed, candidates, idx,
                   attempts, db, dbCalls, result>>

\* a timeout that returns without process.kill(): the process stays in flight
RunCommunicateNoKill ==
    /\ pc = "running"
    /\ \/ /\ \E out \in Outs : rcResult' = RunResult(TRUE, 0, out, "")
          /\ inflight' = inflight \ {Current}
          /\ UNCHANGED faults
       \/ /\ rcResult' = RunResult(FALSE, 1, "", "stderr")
          /\ inflight' = inflight \ {Current}
          /\ UNCHANGED faults
       \/ /\ faults < MaxFaults
          /\ rcResult' = RunResult(FALSE, -1, "", TimedOut)
          /\ faults' = faults + 1
          /\ UNCHANGED inflight
    /\ pc' = "returned"
    /\ UNCHANGED <<envVars, cliVars, pkg, rankVars, searchVars, op, mgrArg, installed, candidates, idx,
                   attempts, invoked, rcAttempt, db, dbCalls, result>>

\* a timeout that is retried: the process is killed and the command spawned again
RunCommunicateRerunOnTimeout ==
    /\ pc = "running"
    /\ inflight' = inflight \ {Current}
    /\ \/ /\ \E out \in Outs : rcResult' = RunResult(TRUE, 0, out, "")
          /\ pc' = "returned" /\ UNCHANGED faults
       \/ /\ rcResult' = RunResult(FALSE, 1, "", "stderr")
          /\ pc' = "returned" /\ UNCHANGED faults
       \/ /\ faults < MaxFaults
          /\ faults' = faults + 1
          /\ pc' = "popen" /\ UNCHANGED rcResult
    /\ UNCHANGED <<envVars, cliVars, pkg, rankVars, searchVars, op, mgrArg, installed, candidates, idx,
                   attempts, invoked, rcAttempt, db, dbCalls, result>>

\* process.communicate(timeout): the process exits, or the timeout expires and
\* the process is killed
RunCommunicate ==
    /\ pc = "running"
    /\ \/ \E out \in Outs : rcResult' = RunResult(TRUE, 0, out, "")
       \/ rcResult' = RunResult(FALSE, 1, "", "stderr")
       \/ /\ faults < MaxFaults
          /\ rcResult' = RunResult(FALSE, -1, "", TimedOut)
    /\ faults' = IF rcResult'.err = TimedOut THEN faults + 1 ELSE faults
    /\ inflight' = inflight \ {Current}
    /\ pc' = "returned"
    /\ UNCHANGED <<envVars, cliVars, pkg, rankVars, searchVars, op, mgrArg, installed, candidates, idx,
                   attempts, invoked, rcAttempt, db, dbCalls, result>>

\* ------------------------------------------------- install_package / remove

\* the preferred manager put in front without removing it from the ranked list
InstallCandidatesKeepDuplicate(s, pref, inst, ot, p) ==
    LET rk == OrderedInstallManagerCandidates(s, inst, ot, p)
        pm == LowerStr(pref)
    IN  IF pref # "" /\ pm \in INSTALL_HANDLERS /\ inst[pm] THEN <<pm>> \o rk ELSE rk

\* an unusable preferred manager treated as a hard error: no candidates
InstallCandidatesStrictPreferred(s, pref, inst, ot, p) ==
    LET rk == OrderedInstallManagerCandidates(s, inst, ot, p)
        pm == LowerStr(pref)
    IN  IF pref # ""
        THEN IF pm \in INSTALL_HANDLERS /\ inst[pm]
             THEN <<pm>> \o SelectIn(rk, {m \in Managers : m # pm})
             ELSE <<>>
        ELSE rk

\* lines 88-98 of install_package: ranked list, preferred manager moved to front
InstallCandidates(s, pref, inst, ot, p) ==
    LET rk == OrderedInstallManagerCandidates(s, inst, ot, p)
        pm == LowerStr(pref)
    IN  IF pref # ""
        THEN IF pm \in INSTALL_HANDLERS /\ inst[pm]
             THEN <<pm>> \o SelectIn(rk, {m \in Managers : m # pm})
             ELSE rk
        ELSE rk

\* the explicit manager first, the ranked list after it as a fallback
RemoveCandidatesWithFallback(s, m, inst, ot, p) ==
    LET rk == SelectIn(OrderedInstallManagerCandidates(s, inst, ot, p), REMOVE_HANDLERS)
    IN  IF m # ""
        THEN IF LowerStr(m) \in REMOVE_HANDLERS /\ inst[LowerStr(m)]
             THEN <<LowerStr(m)>> \o SelectIn(rk, {x \in Managers : x # LowerStr(m)})
             ELSE <<>>
        ELSE rk

\* an explicit manager that is not usable replaced by the ranked list
RemoveCandidatesFallbackIfUnavailable(s, m, inst, ot, p) ==
    IF m # "" /\ LowerStr(m) \in REMOVE_HANDLERS /\ inst[LowerStr(m)]
    THEN <<LowerStr(m)>>
    ELSE SelectIn(OrderedInstallManagerCandidates(s, inst, ot, p), REMOVE_HANDLERS)

\* the ranked list without the filter of line 171
RemoveCandidatesUnfiltered(s, m, inst, ot, p) ==
    IF m # ""
    THEN IF LowerStr(m) \in REMOVE_HANDLERS /\ inst[LowerStr(m)]
         THEN <<LowerStr(m)>>
         ELSE <<>>
    ELSE OrderedInstallManagerCandidates(s, inst, ot, p)

\* lines 159-175 of remove_package: the explicit manager alone, or the ranked
\* list filtered to REMOVE_HANDLERS; <<>> stands for both (False, []) returns
RemoveCandidates(s, m, inst, ot, p) ==
    IF m # ""
    THEN IF LowerStr(m) \in REMOVE_HANDLERS /\ inst[LowerStr(m)]
         THEN <<LowerStr(m)>>
         ELSE <<>>
    ELSE SelectIn(OrderedInstallManagerCandidates(s, inst, ot, p), REMOVE_HANDLERS)

\* the except branch: RunResult(False, -1, "", str(e)) for the current manager
SyntheticFailure(m) == [manager |-> m, res |-> RunResult(FALSE, -1, "", StrE)]

\* a loop that gives up after the first candidate that did not succeed
AdvanceStopAfterFailure == pc' = "done" /\ result' = FALSE /\ UNCHANGED idx

\* the for loop moves to the next candidate, or falls out and returns (False, attempts)
Advance ==
    IF idx < Len(candidates)
    THEN idx' = idx + 1 /\ pc' = "loop" /\ UNCHANGED result
    ELSE pc' = "done" /\ result' = FALSE /\ UNCHANGED idx

\* install_package up to the loop: detection, the no-manager return, the candidates
InstallBegin(s, pref) ==
    /\ pc = "idle"
    /\ op' = "install" /\ pkg' = s /\ mgrArg' = pref
    /\ LET inst == DetectInstalledManagers(sysExecutable, path)
       IN  /\ installed' = inst
           /\ IF ~(\E m \in Managers : inst[m])
              THEN candidates' = <<>> /\ pc' = "done" /\ result' = FALSE
              ELSE LET c == InstallCandidates(s, pref, inst, osType, path)
                   IN  /\ candidates' = c
                       /\ IF c = <<>>
                          THEN pc' = "done" /\ result' = FALSE
                          ELSE pc' = "loop" /\ result' = "pending"
           /\ ranked' = IF \E m \in Managers : inst[m]
                        THEN OrderedInstallManagerCandidates(s, inst, osType, path)
                        ELSE <<>>
    /\ UNCHANGED <<envVars, cliVars, rankPc, searchVars, idx, attempts, invoked, inflight,
                   rcAttempt, rcResult, db, dbCalls, faults>>

\* remove_package up to the loop
RemoveBegin(s, m) ==
    /\ pc = "idle"
    /\ op' = "remove" /\ pkg' = s /\ mgrArg' = m
    /\ LET inst == DetectInstalledManagers(sysExecutable, path)
       IN  /\ installed' = inst
           /\ IF ~(\E x \in Managers : inst[x])
              THEN candidates' = <<>> /\ pc' = "done" /\ result' = FALSE
              ELSE LET c == RemoveCandidates(s, m, inst, osType, path)
                   IN  /\ candidates' = c
                       /\ IF c = <<>>
                          THEN pc' = "done" /\ result' = FALSE
                          ELSE pc' = "loop" /\ result' = "pending"
           /\ ranked' = IF (\E x \in Managers : inst[x]) /\ m = ""
                        THEN OrderedInstallManagerCandidates(s, inst, osType, path)
                        ELSE <<>>
    /\ UNCHANGED <<envVars, cliVars, rankPc, searchVars, idx, attempts, invoked, inflight,
                   rcAttempt, rcResult, db, dbCalls, faults>>

\* a loop head without the try: an exception of cmd_builder ends the call, with
\* no record for the candidate
InstallBuildPropagates ==
    /\ pc = "loop" /\ op = "install"
    /\ \/ /\ pc' = "popen" /\ rcAttempt' = 0
          /\ UNCHANGED <<idx, result, attempts, faults>>
       \/ /\ faults < MaxFaults
          /\ faults' = faults + 1
          /\ pc' = "done" /\ result' = FALSE
          /\ UNCHANGED <<idx, attempts, rcAttempt>>
    /\ UNCHANGED <<envVars, cliVars, pkg, rankVars, searchVars, op, mgrArg, installed, candidates,
                   invoked, inflight, rcResult, db, dbCalls>>

\* loop head of install_package: the handler lookup and cmd_builder(pkg), which
\* returns the command or raises into the except branch
InstallBuild ==
    /\ pc = "loop" /\ op = "install"
    /\ IF Current \notin INSTALL_HANDLERS
       THEN Advance /\ UNCHANGED <<attempts, rcAttempt, faults>>
       ELSE \/ /\ pc' = "popen" /\ rcAttempt' = 0
               /\ UNCHANGED <<idx, result, attempts, faults>>
            \/ /\ faults < MaxFaults
               /\ faults' = faults + 1
               /\ attempts' = Append(attempts, SyntheticFailure(Current))
               /\ Advance
               /\ UNCHANGED rcAttempt
    /\ UNCHANGED <<envVars, cliVars, pkg, rankVars, searchVars, op, mgrArg, installed, candidates,
                   invoked, inflight, rcResult, db, dbCalls>>

\* loop head of remove_package
RemoveBuild ==
    /\ pc = "loop" /\ op = "remove"
    /\ IF Current \notin REMOVE_HANDLERS
       THEN Advance /\ UNCHANGED <<attempts, rcAttempt, faults>>
       ELSE \/ /\ pc' = "popen" /\ rcAttempt' = 0
               /\ UNCHANGED <<idx, result, attempts, faults>>
            \/ /\ faults < MaxFaults
               /\ faults' = faults + 1
               /\ attempts' = Append(attempts, SyntheticFailure(Current))
               /\ Advance
               /\ UNCHANGED rcAttempt
    /\ UNCHANGED <<envVars, cliVars, pkg, rankVars, searchVars, op, mgrArg, installed, candidates,
                   invoked, inflight, rcResult, db, dbCalls>>

\* install_package lines 119-139: attempts.append((manager, res)) and the test of res.ok
InstallAppend ==
    /\ pc = "returned" /\ op = "install"
    /\ attempts' = Append(attempts, [manager |-> Current, res |-> rcResult])
    /\ IF rcResult.ok
       THEN pc' = "record" /\ UNCHANGED <<idx, result>>
       ELSE Advance
    /\ UNCHANGED <<envVars, cliVars, pkg, rankVars, searchVars, op, mgrArg, installed, candidates,
                   invoked, inflight, rcAttempt, rcResult, db, dbCalls, faults>>

\* remove_package lines 187-205
RemoveAppend ==
    /\ pc = "returned" /\ op = "remove"
    /\ attempts' = Append(attempts, [manager |-> Current, res |-> rcResult])
    /\ IF rcResult.ok
       THEN pc' = "record" /\ UNCHANGED <<idx, result>>
       ELSE Advance
    /\ UNCHANGED <<envVars, cliVars, pkg, rankVars, searchVars, op, mgrArg, installed, candidates,
                   invoked, inflight, rcAttempt, rcResult, db, dbCalls, faults>>

\* install_package lines 121-127: the version, package_db.add_package and
\* return (True, attempts); add_package raising lands in the loop's except branch
InstallRecord ==
    /\ pc = "record" /\ op = "install"
    /\ dbCalls' = dbCalls + 1
    /\ \/ /\ db' = AddPackage(db, pkg, ExtractPackageVersion(rcResult.out, Current),
                              Current)
          /\ pc' = "done" /\ result' = TRUE
          /\ UNCHANGED <<idx, attempts, faults>>
       \/ /\ faults < MaxFaults
          /\ faults' = faults + 1
          /\ attempts' = Append(attempts, SyntheticFailure(Current))
          /\ Advance
          /\ UNCHANGED db
    /\ UNCHANGED <<envVars, cliVars, pkg, rankVars, searchVars, op, mgrArg, installed, candidates,
                   invoked, inflight, rcAttempt, rcResult>>

\* remove_package lines 189-194
RemoveRecord ==
    /\ pc = "record" /\ op = "remove"
    /\ dbCalls' = dbCalls + 1
    /\ \/ /\ db' = DbRemovePackage(db, pkg, Current)
          /\ pc' = "done" /\ result' = TRUE
          /\ UNCHANGED <<idx, attempts, faults>>
       \/ /\ faults < MaxFaults
          /\ faults' = faults + 1
          /\ attempts' = Append(attempts, SyntheticFailure(Current))
          /\ Advance
          /\ UNCHANGED db
    /\ UNCHANGED <<envVars, cliVars, pkg, rankVars, searchVars, op, mgrArg, installed, candidates,
                   invoked, inflight, rcAttempt, rcResult>>

\* ------------------------------------------------------ RealSearchEngine.search

\* ThreadPoolExecutor(max_workers=5)
MaxWorkers == 5

\* binaries the hosts of search may have on PATH
SearchBinaries == {"npm", "apt", "snap"}

\* values of --manager for search
SearchArgs == {"", "NPM", "bogus"}

\* values of --search-limit (type=int, default 20)
SearchLimits == {-1, 0, 1, 2, 20}

\* relevance_score values a manager's search function gives its results
Scores(m) ==
    IF m = "pip" THEN {50}
    ELSE IF m = "npm" THEN {50, 90}
    ELSE IF m = "brew" THEN {30, 50, 80}
    ELSE {5}

SearchResult(name, m, score) == [name |-> name, manager |-> m, relevance_score |-> score]

\* the lists a manager's search function may return: the i-th result is named i
ResultLists(m) ==
    LET maxLen == IF m = "pip" THEN 1 ELSE MaxResults
    IN  UNION { { [i \in 1..n |-> SearchResult(i, m, f[i])] : f \in [1..n -> Scores(m)] }
                : n \in 0..maxLen }

\* an insertion that puts a result before the results of equal score
InsertDescTiesFirst(t, r) ==
    LET k == Cardinality({i \in 1..Len(t) : t[i].relevance_score > r.relevance_score})
    IN  SubSeq(t, 1, k) \o <<r>> \o SubSeq(t, k + 1, Len(t))

\* list.sort(key=..., reverse=True): a stable sort, ties keep their order
InsertDesc(t, r) ==
    LET k == Cardinality({i \in 1..Len(t) : t[i].relevance_score >= r.relevance_score})
    IN  SubSeq(t, 1, k) \o <<r>> \o SubSeq(t, k + 1, Len(t))

\* the sort left out
NoSort(s) == s

RECURSIVE SortDesc(_)
SortDesc(s) ==
    IF s = <<>> THEN <<>>
    ELSE InsertDesc(SortDesc(SubSeq(s, 1, Len(s) - 1)), s[Len(s)])

\* s[:limit]
Slice(s, limit) ==
    IF limit >= 0
    THEN SubSeq(s, 1, IF limit < Len(s) THEN limit ELSE Len(s))
    ELSE SubSeq(s, 1, IF Len(s) + limit > 0 THEN Len(s) + limit ELSE 0)

\* lines 55-59: the target managers
TargetManagers(arg, inst) ==
    IF arg # ""
    THEN IF LowerStr(arg) \in Managers /\ inst[LowerStr(arg)]
         THEN <<LowerStr(arg)>> ELSE <<>>
    ELSE SelectIn(Registry, {m \in Managers : inst[m]})

TargetSet == {sTargets[i] : i \in 1..Len(sTargets)}

searchFrame == <<envVars, cliVars, pkg, rankVars, op, mgrArg, pc, candidates, idx, attempts,
                 invoked, inflight, rcAttempt, rcResult, db, dbCalls, faults, result>>

\* search up to as_completed: detection, the targets, one submit per target
SearchBegin(arg, limit) ==
    /\ sPc = "idle"
    /\ sArg' = arg /\ sLimit' = limit
    /\ LET inst == DetectInstalledManagers(sysExecutable, path)
           tm   == TargetManagers(arg, inst)
       IN  /\ installed' = inst
           /\ sTargets' = tm
           /\ IF tm = <<>>
              THEN sPc' = "returned" /\ UNCHANGED task
              ELSE /\ sPc' = "collect"
                   /\ task' = [m \in Managers |->
                                 IF InSeq(m, tm) THEN "queued" ELSE "none"]
    /\ UNCHANGED <<searchFrame, taskOut, yielded, allResults, sReturn, expiredRunning>>

\* a pool without the max_workers limit: every queued item starts at once
TaskStartUnbounded(m) ==
    /\ sPc \in {"collect", "shutdown"}
    /\ task[m] = "queued"
    /\ task' = [task EXCEPT ![m] = "running"]
    /\ UNCHANGED <<searchFrame, installed, sPc, sArg, sLimit, sTargets, taskOut,
                   yielded, allResults, sReturn, expiredRunning>>

\* a pool worker takes the oldest queued work item; at most max_workers run
TaskStart(m) ==
    /\ sPc \in {"collect", "shutdown"}
    /\ task[m] = "queued"
    /\ \A i, j \in 1..Len(sTargets) :
          (sTargets[j] = m /\ i < j) => task[sTargets[i]] # "queued"
    /\ Cardinality({x \in Managers : task[x] = "running"}) < MaxWorkers
    /\ task' = [task EXCEPT ![m] = "running"]
    /\ UNCHANGED <<searchFrame, installed, sPc, sArg, sLimit, sTargets, taskOut,
                   yielded, allResults, sReturn, expiredRunning>>

\* a search function returns one of the lists outs, or raises
TaskFinishWith(m, outs) ==
    /\ sPc \in {"collect", "shutdown"}
    /\ task[m] = "running"
    /\ \/ \E rs \in outs :
             /\ task' = [task EXCEPT ![m] = "done"]
             /\ taskOut' = [taskOut EXCEPT ![m] = rs]
       \/ /\ task' = [task EXCEPT ![m] = "raised"]
          /\ UNCHANGED taskOut
    /\ UNCHANGED <<searchFrame, installed, sPc, sArg, sLimit, sTargets, yielded,
                   allResults, sReturn, expiredRunning>>

\* a search function returns its list, or raises
TaskFinish(m) == TaskFinishWith(m, ResultLists(m))

\* a search function whose registry has nothing for the query: [] or an exception
TaskFinishEmpty(m) == TaskFinishWith(m, {<<>>})

\* an iteration whose exception ends the loop instead of being logged
CollectAbortOnRaise(m) ==
    /\ sPc = "collect"
    /\ m \in TargetSet \ yielded
    /\ task[m] \in {"done", "raised"}
    /\ yielded' = IF task[m] = "raised" THEN TargetSet ELSE yielded \cup {m}
    /\ allResults' = IF task[m] = "done" THEN allResults \o taskOut[m] ELSE allResults
    /\ UNCHANGED <<searchFrame, installed, sPc, sArg, sLimit, sTargets, task,
                   taskOut, sReturn, expiredRunning>>

\* one iteration of the as_completed loop: future.result() extends all_results,
\* or raises into the except branch
Collect(m) ==
    /\ sPc = "collect"
    /\ m \in TargetSet \ yielded
    /\ task[m] \in {"done", "raised"}
    /\ yielded' = yielded \cup {m}
    /\ allResults' = IF task[m] = "done" THEN allResults \o taskOut[m] ELSE allResults
    /\ UNCHANGED <<searchFrame, installed, sPc, sArg, sLimit, sTargets, task,
                   taskOut, sReturn, expiredRunning>>

\* lines 102-103 in the other order: truncated first, sorted after
SearchReturnTruncateFirst ==
    /\ sPc = "collect"
    /\ yielded = TargetSet
    /\ sReturn' = SortDesc(Slice(allResults, sLimit))
    /\ sPc' = "returned"
    /\ UNCHANGED <<searchFrame, installed, sArg, sLimit, sTargets, task, taskOut,
                   yielded, allResults, expiredRunning>>

\* the loop ends, the executor is shut down with every future done, and
\* lines 102-103 sort and truncate
SearchReturn ==
    /\ sPc = "collect"
    /\ yielded = TargetSet
    /\ sReturn' = Slice(SortDesc(allResults), sLimit)
    /\ sPc' = "returned"
    /\ UNCHANGED <<searchFrame, installed, sArg, sLimit, sTargets, task, taskOut,
                   yielded, allResults, expiredRunning>>

\* as_completed(timeout=120) raises TimeoutError with futures it has not yielded;
\* nothing catches it inside the with block, whose exit is shutdown(wait=True)
SearchTimeout ==
    /\ sPc = "collect"
    /\ yielded # TargetSet
    /\ sPc' = "shutdown"
    /\ expiredRunning' = {m \in TargetSet : task[m] = "running"}
    /\ UNCHANGED <<searchFrame, installed, sArg, sLimit, sTargets, task, taskOut,
                   yielded, allResults, sReturn>>

\* shutdown(wait=True) returns once every worker has finished; the TimeoutError
\* then leaves search
ShutdownJoin ==
    /\ sPc = "shutdown"
    /\ \A m \in TargetSet : task[m] \in {"done", "raised"}
    /\ sPc' = "raised"
    /\ UNCHANGED <<searchFrame, installed, sArg, sLimit, sTargets, task, taskOut,
                   yielded, allResults, sReturn, expiredRunning>>

\* ---------------------------------------------------------- install_manager

\* MANAGER_SETUP[m]["os"]; MANAGER_SETUP has the keys of the registry
SetupOs(m) ==
    IF m \in {"pip", "npm"} THEN {"windows", "linux", "macos"}
    ELSE IF m = "brew" THEN {"macos", "linux"}
    ELSE IF m \in {"choco", "winget"} THEN {"windows"}
    ELSE {"linux"}

\* MANAGER_SETUP[m]["install_cmd"]; <<>> stands for None
InstallCmd(m) ==
    IF m = "pip" THEN <<"-m", "ensurepip", "--upgrade">>
    ELSE IF m = "snap" THEN <<"sudo", "apt", "install", "-y", "snapd">>
    ELSE IF m = "flatpak" THEN <<"sudo", "apt", "install", "-y", "flatpak">>
    ELSE <<>>

\* the default retries=1 of install_manager's run_command call
ManagerRetries == 1

\* values of the id: the registry's, upper case, unknown
ManagerIds == Managers \cup {"SNAP", "bogus"}

\* an install_manager that tries the bootstrap command before looking whether
\* the manager is already available
ManagerBeginNoAvailabilityTest(id) ==
    /\ imPc = "idle"
    /\ imArg' = LowerStr(id)
    /\ installed' = DetectInstalledManagers(sysExecutable, path)
    /\ IF LowerStr(id) \notin Managers \/ osType \notin SetupOs(LowerStr(id))
          \/ InstallCmd(LowerStr(id)) = <<>>
       THEN imPc' = "done" /\ imResult' = FALSE
       ELSE imPc' = "popen" /\ UNCHANGED imResult
    /\ UNCHANGED <<envVars, pkg, rankVars, searchVars, bulkVars, mainVars, op, mgrArg,
                   pc, candidates, idx, attempts, invoked, inflight, rcAttempt,
                   rcResult, db, dbCalls, faults, result, imAttempt, imSpawned, imRes>>

\* install_manager lines 38-62 and run_command line 36: the registry lookup, the
\* OS test, the availability test, the lookup of install_cmd. For pip the command
\* starts with sys.executable, which is then "" or None: ' '.join raises
\* TypeError on None, before anything is spawned
ManagerBegin(id) ==
    /\ imPc = "idle"
    /\ imArg' = LowerStr(id)
    /\ LET m    == LowerStr(id)
           inst == DetectInstalledManagers(sysExecutable, path)
       IN  IF m \notin Managers \/ osType \notin SetupOs(m)
           THEN imPc' = "done" /\ imResult' = FALSE /\ UNCHANGED installed
           ELSE /\ installed' = inst
                /\ IF inst[m]
                   THEN imPc' = "done" /\ imResult' = TRUE
                   ELSE IF InstallCmd(m) = <<>>
                   THEN imPc' = "done" /\ imResult' = FALSE
                   ELSE /\ \/ imPc' = "popen"
                           \/ m = "pip" /\ ~sysExecutable /\ imPc' = "raised"
                        /\ UNCHANGED imResult
    /\ UNCHANGED <<envVars, pkg, rankVars, searchVars, bulkVars, mainVars, op, mgrArg,
                   pc, candidates, idx, attempts, invoked, inflight, rcAttempt,
                   rcResult, db, dbCalls, faults, result, imAttempt, imSpawned, imRes>>

\* subprocess.Popen in run_command(full_cmd, timeout=900): the process starts, or
\* Popen raises (always when the executable is ""), which is retried once
ManagerPopen ==
    /\ imPc = "popen"
    /\ \/ /\ imArg = "pip" => sysExecutable
          /\ imSpawned' = imSpawned + 1
          /\ imPc' = "running"
          /\ UNCHANGED <<imAttempt, imRes>>
       \/ /\ IF imAttempt = ManagerRetries
             THEN /\ imRes' = RunResult(FALSE, -1, "", PopenError)
                  /\ imPc' = "returned"
                  /\ UNCHANGED imAttempt
             ELSE /\ imAttempt' = imAttempt + 1
                  /\ UNCHANGED <<imPc, imRes>>
          /\ UNCHANGED imSpawned
    /\ UNCHANGED <<envVars, pkg, rankVars, searchVars, orchVars, bulkVars, mainVars,
                   imArg, imResult>>

\* process.communicate(timeout=900): the process exits, or is killed at the
\* timeout, or its output cannot be decoded: that exception lands in the except
\* branch of the retry loop, which spawns the command again
ManagerCommunicate ==
    /\ imPc = "running"
    /\ \/ /\ \/ \E out \in Outs : imRes' = RunResult(TRUE, 0, out, "")
             \/ imRes' = RunResult(FALSE, 1, "", "stderr")
             \/ imRes' = RunResult(FALSE, -1, "", TimedOut)
          /\ imPc' = "returned"
          /\ UNCHANGED imAttempt
       \/ IF imAttempt = ManagerRetries
          THEN /\ imRes' = RunResult(FALSE, -1, "", PopenError)
               /\ imPc' = "returned"
               /\ UNCHANGED imAttempt
          ELSE /\ imAttempt' = imAttempt + 1
               /\ imPc' = "popen"
               /\ UNCHANGED imRes
    /\ UNCHANGED <<envVars, pkg, rankVars, searchVars, orchVars, bulkVars, mainVars,
                   imArg, imSpawned, imResult>>

\* install_manager lines 67-72: True if result.ok, False otherwise
ManagerReturn ==
    /\ imPc = "returned"
    /\ imResult' = imRes.ok
    /\ imPc' = "done"
    /\ UNCHANGED <<envVars, pkg, rankVars, searchVars, orchVars, bulkVars, mainVars,
                   imArg, imAttempt, imSpawned, imRes>>

\* ---------------------------------------------------- bulk_install_from_file

\* a path at which there is no file
NoFile == [exists |-> FALSE, readable |-> FALSE, lines |-> <<>>]

\* the package lines of the files: stripped, non-empty, not starting with '#'
BulkPackages ==
    { <<"f","o","o">>,
      <<"@","a","n","g","u","l","a","r","/","c","l","i">> }

\* the files: missing, unreadable, or with up to MaxLines package lines
BulkFiles ==
    {NoFile, [exists |-> TRUE, readable |-> FALSE, lines |-> <<>>]}
        \cup { [exists |-> TRUE, readable |-> TRUE, lines |-> l] :
                 l \in UNION { [1..n -> BulkPackages] : n \in 0..MaxLines } }

\* no dict yet
NoDict == [none |-> TRUE]

\* d.get(k, default)
DictGet(d, k, default) == IF k \in DOMAIN d THEN d[k] ELSE default

\* lines 17-40: the file is looked up and read, its package lines are counted
BulkBegin ==
    /\ bulkPc = "idle"
    /\ IF ~bulkFile.exists
       THEN /\ bulkReturn' = [success |-> FALSE, error |-> "File not found"]
            /\ bulkPc' = "done"
       ELSE IF ~bulkFile.readable
       THEN /\ bulkReturn' = [success |-> FALSE, error |-> StrE]
            /\ bulkPc' = "done"
       ELSE IF bulkFile.lines = <<>>
       THEN /\ bulkReturn' = [success |-> FALSE, error |-> "No packages found"]
            /\ bulkPc' = "done"
       ELSE /\ bulkReturn' = [total_packages |-> Len(bulkFile.lines),
                              successful |-> 0, failed |-> 0]
            /\ bulkPc' = "loop"
    /\ UNCHANGED <<envVars, pkg, rankVars, orchVars, searchVars, managerVars, mainVars,
                   bulkFile, bulkIdx, bulkAttempted>>

\* line 47: install_package(line), with no preferred manager
BulkInstall ==
    /\ bulkPc = "loop"
    /\ InstallBegin(bulkFile.lines[bulkIdx], "")

\* lines 49-61 and 70: install_package has returned; the counters, the next line,
\* and after the last line the results dict is returned
BulkCollect ==
    /\ bulkPc = "loop" /\ op = "install" /\ pc = "done"
    /\ bulkAttempted' = Append(bulkAttempted, pkg)
    /\ bulkReturn' = IF result THEN [bulkReturn EXCEPT !.successful = @ + 1]
                     ELSE [bulkReturn EXCEPT !.failed = @ + 1]
    /\ IF bulkIdx < Len(bulkFile.lines)
       THEN bulkIdx' = bulkIdx + 1 /\ UNCHANGED bulkPc
       ELSE bulkPc' = "done" /\ UNCHANGED bulkIdx
    /\ op' = "none" /\ mgrArg' = "" /\ pc' = "idle" /\ pkg' = <<>>
    /\ installed' = [m \in Managers |-> FALSE]
    /\ candidates' = <<>> /\ idx' = 1 /\ attempts' = <<>> /\ invoked' = <<>>
    /\ rcAttempt' = 0 /\ rcResult' = NoResult
    /\ dbCalls' = 0 /\ faults' = 0 /\ result' = "pending" /\ ranked' = <<>>
    /\ UNCHANGED <<envVars, searchVars, managerVars, mainVars, rankPc, inflight, db,
                   bulkFile>>

\* --------------------------------------------------------------------- main

\* the commands of main that are modelled
MainCommands == {"install-manager", "search", "install", "remove", "install-from"}

\* binaries the hosts of main may have on PATH
MainBinaries == {"npm", "snap"}

\* values of --install / --remove
MainPackages == { <<"f","o","o">> }

\* values of --manager
MainManagerArgs == {"", "NPM"}

\* values of --install-manager
MainManagerIds == {"pip", "npm", "SNAP", "bogus"}

\* values of --search-limit
MainLimits == {0, 20}

\* the value main returns for the outcome of its command, in JSON mode or not:
\* lines 580-585, 688-721, 724-729, 731-736, 738-742, and the outer handler's 1
\* for an exception
ExitCode(json) ==
    IF mainCmd = "install-manager"
    THEN IF imPc = "done" /\ imResult THEN 0 ELSE 1
    ELSE IF mainCmd = "search"
    THEN IF sPc = "raised" THEN 1
         ELSE IF json THEN 0
         ELSE IF sReturn = <<>> THEN 1 ELSE 0
    ELSE IF mainCmd \in {"install", "remove"}
    THEN IF result THEN 0 ELSE 1
    ELSE IF DictGet(bulkReturn, "success", FALSE) THEN 0 ELSE 1

\* the command's operation has returned or raised
MainEnded ==
    \/ mainCmd = "install-manager" /\ imPc \in {"done", "raised"}
    \/ mainCmd = "search" /\ sPc \in {"returned", "raised"}
    \/ mainCmd \in {"install", "remove"} /\ pc = "done"
    \/ mainCmd = "install-from" /\ bulkPc = "done"

MainInstallManager ==
    mainCmd = "install-manager" /\ \E id \in MainManagerIds : ManagerBegin(id)

MainSearch ==
    mainCmd = "search" /\ \E a \in MainManagerArgs, l \in MainLimits : SearchBegin(a, l)

MainInstall ==
    mainCmd = "install" /\ \E s \in MainPackages, a \in MainManagerArgs : InstallBegin(s, a)

MainRemove ==
    mainCmd = "remove" /\ \E s \in MainPackages, a \in MainManagerArgs : RemoveBegin(s, a)

MainInstallFrom ==
    mainCmd = "install-from" /\ BulkBegin

\* main returns
MainExit ==
    /\ exitCode = <<>>
    /\ MainEnded
    /\ exitCode' = <<ExitCode(jsonMode)>>
    /\ UNCHANGED <<envVars, pkg, rankVars, orchVars, searchVars, managerVars, bulkVars,
                   jsonMode, mainCmd>>

\* ----------------------------------------------------------- specifications

NoCall ==
    /\ op = "none" /\ mgrArg = "" /\ pc = "idle"
    /\ installed = [m \in Managers |-> FALSE]
    /\ candidates = <<>> /\ idx = 1 /\ attempts = <<>> /\ invoked = <<>>
    /\ inflight = {} /\ rcAttempt = 0 /\ rcResult = NoResult
    /\ db = SeedDB /\ dbCalls = 0 /\ faults = 0 /\ result = "pending"

NoRank == rankPc = "init" /\ ranked = <<>>

NoSearch ==
    /\ sPc = "idle" /\ sArg = "" /\ sLimit = 0 /\ sTargets = <<>>
    /\ task = [m \in Managers |-> "none"]
    /\ taskOut = [m \in Managers |-> <<>>]
    /\ yielded = {} /\ allResults = <<>> /\ sReturn = <<>>
    /\ expiredRunning = {}

NoManagerCall ==
    /\ imArg = "" /\ imPc = "idle" /\ imAttempt = 0 /\ imSpawned = 0
    /\ imRes = NoResult /\ imResult = "pending"

NoBulk ==
    /\ bulkPc = "idle" /\ bulkIdx = 1 /\ bulkAttempted = <<>> /\ bulkReturn = NoDict

\* no main and no file: the operations are called directly
NoCli ==
    /\ NoManagerCall
    /\ NoBulk /\ bulkFile = NoFile
    /\ jsonMode = FALSE /\ mainCmd = "none" /\ exitCode = <<>>

\* a host, before install_package or remove_package is called
Init ==
    /\ osType \in OsTypes
    /\ sysExecutable \in BOOLEAN
    /\ path \in {S \in SUBSET HostBinaries : Cardinality(S) <= MaxHostPath}
    /\ pkg = <<>>
    /\ NoRank
    /\ NoCall
    /\ NoSearch
    /\ NoCli

Next ==
    \/ \E s \in OrchPackages, a \in ManagerArgs : InstallBegin(s, a)
    \/ \E s \in OrchPackages, a \in ManagerArgs : RemoveBegin(s, a)
    \/ InstallBuild
    \/ RemoveBuild
    \/ RunPopen
    \/ RunCommunicate
    \/ InstallAppend
    \/ RemoveAppend
    \/ InstallRecord
    \/ RemoveRecord

Spec == Init /\ [][Next]_vars

\* the ranker applied to one package on one host
RankInit ==
    /\ osType \in OsTypes
    /\ sysExecutable \in BOOLEAN
    /\ path \in {S \in SUBSET Binaries : Cardinality(S) <= MaxOnPath}
    /\ pkg \in RankPackages
    /\ NoRank
    /\ NoCall
    /\ NoSearch
    /\ NoCli

ApplyRank ==
    /\ rankPc = "init"
    /\ installed' = DetectInstalledManagers(sysExecutable, path)
    /\ ranked' = OrderedInstallManagerCandidates(pkg, installed', osType, path)
    /\ rankPc' = "done"
    /\ UNCHANGED <<envVars, cliVars, pkg, searchVars, op, mgrArg, pc, candidates, idx,
                   attempts, invoked, inflight, rcAttempt, rcResult, db, dbCalls,
                   faults, result>>

RankNext == ApplyRank

RankSpec == RankInit /\ [][RankNext]_vars

\* a host, before search is called
SearchInit ==
    /\ osType = "linux"
    /\ sysExecutable \in BOOLEAN
    /\ path \in {S \in SUBSET SearchBinaries : Cardinality(S) <= MaxSearchPath}
    /\ pkg = <<>>
    /\ NoRank
    /\ NoCall
    /\ NoSearch
    /\ NoCli

SearchNext ==
    \/ \E a \in SearchArgs, l \in SearchLimits : SearchBegin(a, l)
    \/ \E m \in Managers : TaskStart(m)
    \/ \E m \in Managers : TaskFinish(m)
    \/ \E m \in Managers : Collect(m)
    \/ SearchReturn
    \/ SearchTimeout
    \/ ShutdownJoin

SearchSpec == SearchInit /\ [][SearchNext]_vars

\* binaries of the hosts that have more search targets than the pool has workers
PoolBinaries == {"apt", "dnf", "yum", "zypper", "snap"}

\* --search-limit of the searches on these hosts: the default
PoolLimits == {20}

\* a linux host with every one of them: five targets, six with a Python interpreter
PoolInit ==
    /\ osType = "linux"
    /\ sysExecutable \in BOOLEAN
    /\ path = PoolBinaries
    /\ pkg = <<>>
    /\ NoRank
    /\ NoCall
    /\ NoSearch
    /\ NoCli

PoolNext ==
    \/ \E l \in PoolLimits : SearchBegin("", l)
    \/ \E m \in Managers : TaskStart(m)
    \/ \E m \in Managers : TaskFinishEmpty(m)
    \/ \E m \in Managers : Collect(m)
    \/ SearchReturn
    \/ SearchTimeout
    \/ ShutdownJoin

\* a free worker thread takes the next work item from the queue, and a search
\* function ends: its HTTP request has a timeout (10, 15, 20 s) and its command
\* is run with timeout=30
PoolFairness ==
    \A m \in Managers : WF_vars(TaskStart(m)) /\ WF_vars(TaskFinishEmpty(m))

PoolSpec == PoolInit /\ [][PoolNext]_vars /\ PoolFairness

\* a host, before install_manager is called
ManagerInit ==
    /\ osType \in OsTypes
    /\ sysExecutable \in BOOLEAN
    /\ path \in {S \in SUBSET HostBinaries : Cardinality(S) <= MaxHostPath}
    /\ pkg = <<>>
    /\ NoRank
    /\ NoCall
    /\ NoSearch
    /\ NoCli

ManagerNext ==
    \/ \E id \in ManagerIds : ManagerBegin(id)
    \/ ManagerPopen
    \/ ManagerCommunicate
    \/ ManagerReturn

ManagerSpec == ManagerInit /\ [][ManagerNext]_vars

\* a host and a command line, before main dispatches
MainInit ==
    /\ osType = "linux"
    /\ sysExecutable \in BOOLEAN
    /\ path \in SUBSET MainBinaries
    /\ pkg = <<>>
    /\ NoRank
    /\ NoCall
    /\ NoSearch
    /\ NoManagerCall
    /\ NoBulk
    /\ mainCmd \in MainCommands
    /\ bulkFile \in BulkFiles
    /\ mainCmd # "install-from" => bulkFile = NoFile
    /\ jsonMode \in BOOLEAN
    /\ exitCode = <<>>

MainNext ==
    \/ MainInstallManager
    \/ ManagerPopen
    \/ ManagerCommunicate
    \/ ManagerReturn
    \/ MainSearch
    \/ \E m \in Managers : TaskStart(m)
    \/ \E m \in Managers : TaskFinish(m)
    \/ \E m \in Managers : Collect(m)
    \/ SearchReturn
    \/ SearchTimeout
    \/ ShutdownJoin
    \/ MainInstall
    \/ MainRemove
    \/ InstallBuild
    \/ RemoveBuild
    \/ RunPopen
    \/ RunCommunicate
    \/ InstallAppend
    \/ RemoveAppend
    \/ InstallRecord
    \/ RemoveRecord
    \/ MainInstallFrom
    \/ BulkInstall
    \/ BulkCollect
    \/ MainExit

MainSpec == MainInit /\ [][MainNext]_vars

\* ------------------------------------------------------------------ claims

AnyAvailable == \E m \in Managers : installed[m]

Called == op \in {"install", "remove"}

\* what the ranker would give for the call's package on the call's host
RankedNow == OrderedInstallManagerCandidates(pkg, installed, osType, path)

SortedNonIncreasing(s) ==
    \A i, j \in 1..Len(s) : i < j => s[i].relevance_score >= s[j].relevance_score

\* the results of manager m in s, in order
OfManager(s, m) == SelectIn(s, {r \in {s[i] : i \in 1..Len(s)} : r.manager = m})

\* C1: for every package, host and OS type the list returned by
\* _ordered_install_manager_candidates contains no manager twice and only
\* managers the availability map holds true
C1_RankedNoDupAvailable ==
    rankPc = "done" =>
        /\ NoDup(ranked)
        /\ \A i \in 1..Len(ranked) : ranked[i] \in Managers /\ installed[ranked[i]]

\* C1 witness: heuristic, OS priority and remaining managers all contributed
C1_Witness ==
    /\ rankPc = "done" /\ osType = "linux"
    /\ Len(ranked) = 4 /\ ranked[1] = "pip" /\ ranked[2] = "apt"

\* C2: once an attempt record with ok=true has been appended, no further command
\* is invoked and no further record is appended: the successful record is the
\* last one and the loop is over, whatever the record store does
C2_StopsAtFirstSuccess ==
    \A i \in 1..Len(attempts) :
        attempts[i].res.ok => (i = Len(attempts) /\ pc \in {"record", "done"})

\* C3 as stated: remove_package(p, manager=M) with M an available manager of the
\* registry produces exactly one attempt record, for M
C3_ExactlyOneRecord ==
    (/\ op = "remove" /\ mgrArg # "" /\ pc = "done"
     /\ LowerStr(mgrArg) \in Managers /\ installed[LowerStr(mgrArg)])
        => (Len(attempts) = 1 /\ attempts[1].manager = LowerStr(mgrArg))

\* C3 amended: an available M with a remove handler is the only candidate: every
\* record is for M, at most one command (M's) is spawned, and there is one
\* record, or two when the record store raised after M's command succeeded; an
\* available M without a remove handler gives (False, []) and no command
C3_ExplicitRemoveOnlyManager ==
    LET m == LowerStr(mgrArg)
    IN  (op = "remove" /\ mgrArg # "" /\ m \in Managers /\ installed[m]) =>
            /\ candidates = IF m \in REMOVE_HANDLERS THEN <<m>> ELSE <<>>
            /\ \A i \in 1..Len(attempts) : attempts[i].manager = m
            /\ \A i \in 1..Len(invoked) : invoked[i] = m
            /\ Len(invoked) <= 1
            /\ pc = "done" =>
                IF m \in REMOVE_HANDLERS
                THEN \/ Len(attempts) = 1
                     \/ /\ Len(attempts) = 2
                        /\ attempts[1].res.ok
                        /\ attempts[2] = SyntheticFailure(m)
                ELSE attempts = <<>> /\ invoked = <<>> /\ result = FALSE

\* C3 witness: apt removed explicitly while npm is available too
C3_Witness ==
    /\ op = "remove" /\ mgrArg = "apt" /\ pc = "done" /\ result = TRUE
    /\ installed["apt"] /\ installed["npm"]
    /\ Len(attempts) = 1 /\ invoked = <<"apt">>

\* C4: when a task is still running as the overall wait expires, search returns
\* normally the sorted, truncated list of the results collected before the expiry
C4_TimeoutStillReturns ==
    (sPc \in {"returned", "raised"} /\ expiredRunning # {}) =>
        /\ sPc = "returned"
        /\ sReturn = Slice(SortDesc(allResults), sLimit)

\* C5: after the overall wait has expired the call finishes without waiting for
\* the outstanding tasks: leaving the executor is possible whatever they do
C5_NoWaitAfterExpiry == sPc = "shutdown" => ENABLED ShutdownJoin

\* C6 as stated: for every integer limit L the returned list has length at most L
\* and non-increasing relevance_score
C6_AtMostLimitSorted ==
    sPc = "returned" => (Len(sReturn) <= sLimit /\ SortedNonIncreasing(sReturn))

\* C6 amended: the returned list has non-increasing relevance_score for every L,
\* and length at most L for every L >= 0
C6_SortedAndBoundedForNonNegativeLimit ==
    sPc = "returned" =>
        /\ SortedNonIncreasing(sReturn)
        /\ sLimit >= 0 => Len(sReturn) <= sLimit

\* C6 witness: three results of different scores merged out of order, cut to two
C6_Witness ==
    /\ sPc = "returned" /\ sLimit = 2 /\ Len(sReturn) = 2
    /\ Len(allResults) = 3
    /\ allResults[1].relevance_score < allResults[2].relevance_score
    /\ sReturn[1].relevance_score > sReturn[2].relevance_score

\* C7: when the task of one target manager raises, it contributes no result and
\* every other target's task still completes and has all its results merged
\* (before sort and truncation)
C7_RaisingTaskIsolated ==
    (sPc = "returned" /\ \E m \in TargetSet : task[m] = "raised") =>
        \A m \in TargetSet :
            IF task[m] = "raised"
            THEN OfManager(allResults, m) = <<>>
            ELSE task[m] = "done" /\ OfManager(allResults, m) = taskOut[m]

\* C7 witness: npm's task raised, pip's result is in the returned list
C7_Witness ==
    /\ sPc = "returned" /\ task["npm"] = "raised" /\ task["pip"] = "done"
    /\ task["apt"] = "done" /\ Len(taskOut["apt"]) = 2
    /\ Len(sReturn) = 3 /\ sReturn[1].manager = "pip"

\* C8: with a preferred manager that is available and has an install handler the
\* candidate list is the preferred manager followed by the ranked list without
\* it, it holds the preferred manager once, and the first record is for it
C8_PreferredFirst ==
    LET pm == LowerStr(mgrArg)
    IN  (/\ op = "install" /\ mgrArg # ""
         /\ pm \in INSTALL_HANDLERS /\ installed[pm]) =>
            /\ candidates # <<>> /\ candidates[1] = pm
            /\ Cardinality({i \in 1..Len(candidates) : candidates[i] = pm}) = 1
            /\ Tail(candidates) = SelectIn(ranked, {m \in Managers : m # pm})
            /\ attempts # <<>> => attempts[1].manager = pm
            /\ pc = "done" => attempts # <<>>

\* C8 witness: apt preferred for a Python package the ranker puts pip first for
C8_Witness ==
    /\ op = "install" /\ mgrArg = "apt" /\ pc = "done"
    /\ Len(ranked) = 3 /\ ranked[1] = "pip" /\ ranked[2] = "apt"
    /\ candidates = <<"apt", "pip", ranked[3]>>
    /\ Len(attempts) = 3

\* C9: with a preferred manager that is unknown, has no install handler or is not
\* available, the candidates are the ranked list, unchanged, and the call goes on
\* to try them
C9_UnusablePreferredIgnored ==
    LET pm == LowerStr(mgrArg)
    IN  (/\ op = "install" /\ mgrArg # ""
         /\ ~(pm \in INSTALL_HANDLERS /\ installed[pm])) =>
            /\ candidates = ranked
            /\ (pc = "done" /\ AnyAvailable) =>
                  attempts # <<>> /\ attempts[1].manager = ranked[1]

\* C9 witness: an unknown preferred manager, and the second ranked manager installs
C9_Witness ==
    /\ op = "install" /\ mgrArg = "bogus" /\ pc = "done" /\ result = TRUE
    /\ Len(attempts) = 2 /\ attempts[2].manager = ranked[2]

\* C10: with no available manager the ranker gives the empty list and
\* install_package / remove_package return (False, []) at once, with no command
\* spawned and the record store untouched
C10_NoManagerNoAttempt ==
    (Called /\ ~AnyAvailable) =>
        /\ RankedNow = <<>>
        /\ candidates = <<>>
        /\ pc = "done" /\ result = FALSE
        /\ attempts = <<>> /\ invoked = <<>> /\ inflight = {}
        /\ dbCalls = 0 /\ db = SeedDB

\* C10 witness: remove with an explicit manager on a host with nothing usable
C10_Witness ==
    /\ op = "remove" /\ mgrArg = "pip" /\ ~AnyAvailable /\ pc = "done"
    /\ "apt-get" \in path

\* C11: remove_package(p, manager=M) with M unknown or not available returns
\* (False, []) at once: no candidate, no command spawned, no record, no call of
\* the record store, whatever other managers are available
C11_UnavailableExplicitRemove ==
    LET m == LowerStr(mgrArg)
    IN  (op = "remove" /\ mgrArg # "" /\ ~(m \in Managers /\ installed[m])) =>
            /\ pc = "done" /\ result = FALSE
            /\ candidates = <<>> /\ attempts = <<>>
            /\ invoked = <<>> /\ inflight = {}
            /\ dbCalls = 0 /\ db = SeedDB

\* C11 witness: apt named but absent, while npm, which holds a row for foo, is there
C11_Witness ==
    /\ op = "remove" /\ mgrArg = "apt" /\ pc = "done"
    /\ pkg = <<"f","o","o">>
    /\ ~installed["apt"] /\ installed["npm"] /\ installed["pip"]

\* the record of a command that ran and did not succeed
CommandFailure(r) == ~r.res.ok /\ r.res.err \in {"stderr", TimedOut}

\* C12: when the command of every candidate ran and failed, install_package
\* returns (False, attempts) with one record per candidate, in candidate order,
\* and each candidate's command was spawned once
C12_AllFailOneRecordEach ==
    (/\ op = "install" /\ pc = "done" /\ candidates # <<>>
     /\ \A i \in 1..Len(attempts) : CommandFailure(attempts[i])) =>
        /\ result = FALSE
        /\ Len(attempts) = Len(candidates)
        /\ \A i \in 1..Len(attempts) : attempts[i].manager = candidates[i]
        /\ invoked = candidates

\* C12 witness: three candidates, three failed commands
C12_Witness ==
    /\ op = "install" /\ pc = "done" /\ result = FALSE
    /\ Len(candidates) = 3 /\ Len(attempts) = 3
    /\ \A i \in 1..Len(attempts) : CommandFailure(attempts[i])
    /\ \E i \in 1..Len(attempts) : attempts[i].res.err = TimedOut

\* C13: in every state of install_package and remove_package the managers of
\* the attempt records are a prefix of the candidate list
C13_AttemptsPrefixOfCandidates ==
    Called =>
        \A i \in 1..Len(attempts) :
            i <= Len(candidates) /\ attempts[i].manager = candidates[i]

\* the records are only ever appended: a step leaves attempts alone or adds one
\* record at its end
AttemptsAppendOnly ==
    [][\/ attempts' = attempts
       \/ /\ Len(attempts') = Len(attempts) + 1
          /\ SubSeq(attempts', 1, Len(attempts)) = attempts]_vars

\* position of manager m in the candidate list
Pos(m) == CHOOSE k \in 1..Len(candidates) : candidates[k] = m

\* the record of an exception: code -1 without the timeout message
ExceptionRecord(r) == r.res.code = -1 /\ r.res.err # TimedOut

\* the call went on after record i: the next record is for the next candidate,
\* and a last record leaves the loop at the next candidate or at its end
WentOn(i) ==
    LET k == Pos(attempts[i].manager)
    IN  /\ InSeq(attempts[i].manager, candidates)
        /\ i < Len(attempts) => Pos(attempts[i + 1].manager) = k + 1
        /\ (i = Len(attempts) /\ pc = "done") => (k = Len(candidates) /\ result = FALSE)
        /\ (i = Len(attempts) /\ pc # "done") => idx = k + 1

\* every exceptional outcome so far has its record with code -1, none is lost
\* and none ends the call
EveryFaultRecorded ==
    pc \in {"loop", "done"} =>
        Cardinality({i \in 1..Len(attempts) : attempts[i].res.code = -1}) = faults

RowOf(r) ==
    [name |-> pkg, manager |-> r.manager,
     version |-> ExtractPackageVersion(r.res.out, r.manager)]

\* C15: when install_package has returned true, the record store holds the
\* entry written for (package, m) for the manager m of the successful attempt;
\* when it has returned false the record store is as it was before the call
C15_SuccessRecorded ==
    (op = "install" /\ pc = "done") =>
        IF result = TRUE
        THEN \A i \in 1..Len(attempts) : attempts[i].res.ok => RowOf(attempts[i]) \in db
        ELSE db = SeedDB

\* C16: when remove_package has returned true via manager m, the record store
\* has no entry for (package, m), every other entry is as before the call and
\* nothing was added; until then, and when it has returned false, the record
\* store is as it was before the call
C16_RemoveDeletesOnlyMatching ==
    op = "remove" =>
        IF pc = "done" /\ result = TRUE
        THEN LET last == attempts[Len(attempts)]
             IN  /\ last.res.ok
                 /\ ~\E r \in db : r.name = pkg /\ r.manager = last.manager
                 /\ \A r \in SeedDB :
                       ~(r.name = pkg /\ r.manager = last.manager) => r \in db
                 /\ db \subseteq SeedDB
        ELSE db = SeedDB

\* C16 witness: the package is recorded under pip and apt, pip removed it, and
\* the apt entry is still there
C16_Witness ==
    /\ op = "remove" /\ pc = "done" /\ result = TRUE
    /\ attempts[Len(attempts)].manager = "pip"
    /\ \E r \in SeedDB : r.name = pkg /\ r.manager = "pip"
    /\ \E r \in db : r.name = pkg /\ r.manager = "apt"
    /\ db # SeedDB

Available == {m \in Managers : installed[m]}

IsPrefix(p, s) == Len(p) <= Len(s) /\ SubSeq(s, 1, Len(p)) = p

\* package strings that match the Python heuristic: by indicator, by prefix in
\* another case, by indicator together with a leading "@"
PythonExamples ==
    { <<"d","j","a","n","g","o","=","=","4",".","2">>,
      <<"P","y","Y","A","M","L">>,
      <<"@","a","[","b","]">> }

\* C17: when the package string matches the Python heuristic and pip is
\* available the ranked list starts with pip; "django==4.2" on Linux with pip
\* and apt available and npm not gives pip, apt, then the remaining available
\* managers
C17_PythonHeuristicFirst ==
    (/\ rankPc = "done" /\ installed["pip"]
     /\ (LooksLikePythonPkg(pkg) \/ pkg \in PythonExamples)) =>
        /\ ranked # <<>> /\ ranked[1] = "pip"
        /\ (/\ pkg = <<"d","j","a","n","g","o","=","=","4",".","2">>
            /\ osType = "linux" /\ installed["apt"] /\ ~installed["npm"]) =>
               /\ IsPrefix(<<"pip", "apt">>, ranked)
               /\ {ranked[i] : i \in 1..Len(ranked)} = Available

\* C17 witness: a string both heuristics match, pip and npm and apt available
C17_Witness ==
    /\ rankPc = "done" /\ osType = "linux"
    /\ pkg = <<"@","a","[","b","]">>
    /\ ranked = <<"pip", "npm", "apt">>

\* the preference order of the native Linux managers
NativeOrder == <<"apt", "dnf", "yum", "pacman", "zypper", "apk">>

\* the system-manager priority as a function of the availability map: on Linux
\* the first available native manager, then snap and flatpak
PriorityByAvailability ==
    IF osType = "macos" THEN <<"brew", "snap", "flatpak">>
    ELSE IF osType = "windows" THEN <<"winget", "choco">>
    ELSE IF osType = "linux" THEN
        LET native == SelectIn(NativeOrder, Available)
        IN  (IF native = <<>> THEN <<>> ELSE <<Head(native)>>) \o <<"snap", "flatpak">>
    ELSE <<"snap", "flatpak">>

\* the managers the two package heuristics placed
HeuristicPlaced ==
    (IF LooksLikePythonPkg(pkg) /\ installed["pip"] THEN <<"pip">> ELSE <<>>)
        \o (IF LooksLikeNpmPkg(pkg) /\ installed["npm"] THEN <<"npm">> ELSE <<>>)

\* C18: when the package string matches the Node heuristic and not the Python
\* one, and npm is available, the ranked list is npm followed by the available
\* managers of the OS system priority, then the rest
C18_NpmThenSystemPriority ==
    (/\ rankPc = "done" /\ installed["npm"]
     /\ LooksLikeNpmPkg(pkg) /\ ~LooksLikePythonPkg(pkg)) =>
        IsPrefix(<<"npm">> \o SelectIn(PriorityByAvailability, Available), ranked)

\* C19: on Linux with a native manager available, the first available one in
\* the preference order comes right after the managers the heuristics placed,
\* followed by snap and flatpak when available, whatever else is on PATH
C19_FirstAvailableNativeFirst ==
    (/\ rankPc = "done" /\ osType = "linux"
     /\ \E i \in 1..Len(NativeOrder) : installed[NativeOrder[i]]) =>
        IsPrefix(HeuristicPlaced \o SelectIn(PriorityByAvailability, Available), ranked)

\* C20: remove_package without a manager argument has as candidates the ranked
\* list restricted to managers with a remove handler, in ranked order; commands
\* are spawned in that order and never for a manager without a remove handler;
\* when no available manager has a remove handler it returns (False, []) with
\* no attempt and no command
C20_RemoveRankedFiltered ==
    (op = "remove" /\ mgrArg = "") =>
        /\ candidates = SelectIn(ranked, REMOVE_HANDLERS)
        /\ \A i \in 1..Len(invoked) :
              invoked[i] \in REMOVE_HANDLERS /\ InSeq(invoked[i], candidates)
        /\ \A i, j \in 1..Len(invoked) : i < j => Pos(invoked[i]) < Pos(invoked[j])
        /\ \A i, j \in 1..Len(attempts) :
              i < j => Pos(attempts[i].manager) <= Pos(attempts[j].manager)
        /\ Available \cap REMOVE_HANDLERS = {} =>
              /\ pc = "done" /\ result = FALSE
              /\ attempts = <<>> /\ invoked = <<>> /\ db = SeedDB

\* C20 witness: zypper ranked first and left out, the two managers after it tried
C20_Witness ==
    /\ op = "remove" /\ mgrArg = "" /\ pc = "done"
    /\ ranked # <<>> /\ ranked[1] = "zypper"
    /\ Len(candidates) = 2 /\ invoked = candidates
    /\ ~InSeq("zypper", invoked)

\* every candidate before position k has a record
RecordedBefore(k) ==
    \A n \in 1..(k - 1) : \E i \in 1..Len(attempts) : attempts[i].manager = candidates[n]

C26_SpawnedOnceTimeoutRecorded ==
    Called =>
        /\ NoDup(invoked)
        /\ \A i \in 1..Len(attempts) :
              attempts[i].res.err = TimedOut =>
                  /\ ~attempts[i].res.ok /\ attempts[i].res.code = -1
                  /\ attempts[i].manager \notin inflight
                  /\ Cardinality({j \in 1..Len(invoked) :
                                    invoked[j] = attempts[i].manager}) = 1
                  /\ WentOn(i)
        /\ (pc = "returned" /\ rcResult.err = TimedOut) => inflight = {}

\* C26 witness: the first candidate timed out, the second was spawned and succeeded
C26_Witness ==
    /\ op = "install" /\ pc = "done" /\ result = TRUE
    /\ Len(attempts) = 2 /\ attempts[1].res.err = TimedOut
    /\ invoked = <<candidates[1], candidates[2]>>

SetOf(s) == {s[i] : i \in 1..Len(s)}

\* the managers placed by the package heuristics or by the OS priority
PlacedFirst ==
    SetOf(HeuristicPlaced) \cup (SetOf(SystemManagerPriority(osType, path)) \cap Available)

\* the ranked list holds every available manager once, and those not placed by
\* the heuristics or the OS priority come last, in registry order
RankedIsAvailable ==
    /\ NoDup(ranked)
    /\ SetOf(ranked) = Available
    /\ LET rest == Available \ PlacedFirst
       IN  /\ SelectIn(ranked, rest) = SelectIn(Registry, rest)
           /\ \A i, j \in 1..Len(ranked) :
                 (ranked[i] \in rest /\ ranked[j] \notin rest) => j < i

\* C28: the set of managers of the ranked list is the set of available
\* managers, each once, the ones not placed by heuristics or OS priority in
\* registry order; and without a preferred manager install_package returns
\* false only when every available manager has an attempt record
C28_RankedCoversAvailable ==
    /\ rankPc = "done" => RankedIsAvailable
    /\ (op = "install" /\ mgrArg = "") => candidates = ranked
    /\ (op = "install" /\ mgrArg = "" /\ pc = "done") =>
          /\ RankedIsAvailable
          /\ result = FALSE =>
                \A m \in Available : \E i \in 1..Len(attempts) : attempts[i].manager = m

\* C28 witness: three available managers, none installed the package, each has
\* its record
C28_Witness ==
    /\ op = "install" /\ mgrArg = "" /\ pc = "done" /\ result = FALSE
    /\ Cardinality(Available) = 3 /\ Len(attempts) = 3
    /\ "zypper" \in Available /\ "npm" \in Available
    /\ osType = "linux" /\ ranked[1] = "zypper"

\* C29: when install_package or remove_package has returned, the success flag
\* is true exactly when the attempts hold a record with ok=true, and a record
\* with ok=true is the last one, also when the record store raised
C29_SuccessIffOkRecord ==
    (Called /\ pc = "done") =>
        /\ (result = TRUE) <=> (\E i \in 1..Len(attempts) : attempts[i].res.ok)
        /\ \A i \in 1..Len(attempts) : attempts[i].res.ok => i = Len(attempts)

\* position of result r in list s
IndexIn(s, r) == CHOOSE i \in 1..Len(s) : s[i] = r

\* C23: in the list search returns, two results of equal relevance_score are in
\* the order in which they were merged into all_results
C23_TiesKeepMergeOrder ==
    sPc = "returned" =>
        /\ \A i \in 1..Len(sReturn) : InSeq(sReturn[i], allResults)
        /\ \A i, j \in 1..Len(sReturn) :
              (i < j /\ sReturn[i].relevance_score = sReturn[j].relevance_score) =>
                  IndexIn(allResults, sReturn[i]) < IndexIn(allResults, sReturn[j])

\* C23 witness: snap's task completed before apt's, and snap's result stays in
\* front of apt's result of the same score, behind a result of a higher score
C23_Witness ==
    /\ sPc = "returned" /\ Len(sReturn) = 3
    /\ sReturn[1].manager = "pip"
    /\ sReturn[2].manager = "snap" /\ sReturn[3].manager = "apt"
    /\ sReturn[2].relevance_score = sReturn[3].relevance_score
    /\ allResults[1].manager = "snap"

\* the lists of the finished tasks, concatenated in the order of the targets
RECURSIVE InTargetOrder(_)
InTargetOrder(ts) ==
    IF ts = <<>> THEN <<>>
    ELSE (IF task[Head(ts)] = "done" THEN taskOut[Head(ts)] ELSE <<>>)
            \o InTargetOrder(Tail(ts))

\* what search returns when the tasks complete in the order of the targets
SubmitOrderReturn == Slice(SortDesc(InTargetOrder(sTargets)), sLimit)

ScoresOf(s) == [i \in 1..Len(s) |-> s[i].relevance_score]

\* C30 as stated: the list search returns is the same for every completion
\* order of the tasks: it is the list returned when they complete in the order
\* of the targets
C30_SameForEveryCompletionOrder ==
    sPc = "returned" => sReturn = SubmitOrderReturn

\* C30 amended: for every completion order the returned list has the same
\* sequence of relevance scores, and the same set of results when the limit
\* does not truncate
C30_SameScoresForEveryCompletionOrder ==
    sPc = "returned" =>
        /\ ScoresOf(sReturn) = ScoresOf(SubmitOrderReturn)
        /\ sLimit >= Len(allResults) => SetOf(sReturn) = SetOf(SubmitOrderReturn)

\* C30 witness: a completion order that gives another list of the same scores,
\* with a result that the order of the targets would have cut
C30_Witness ==
    /\ sPc = "returned" /\ sLimit = 2 /\ Len(sReturn) = 2 /\ Len(allResults) = 3
    /\ sReturn # SubmitOrderReturn
    /\ SetOf(sReturn) # SetOf(SubmitOrderReturn)

\* the tasks a worker is executing
Executing == {m \in Managers : task[m] = "running"}

OneTaskPerTarget ==
    sPc # "idle" =>
        /\ NoDup(sTargets)
        /\ \A m \in Managers : (task[m] # "none") <=> (m \in TargetSet)

QueuedBehindStarted ==
    \A i, j \in 1..Len(sTargets) :
        (i < j /\ task[sTargets[i]] = "queued") => task[sTargets[j]] = "queued"

\* C22: search submits exactly one task for each target manager and for no other;
\* at every moment at most five tasks are executing, the later ones wait queued
\* in submission order, and every queued task is eventually started.
C22_AtMostFiveExecutingAllStarted ==
    /\ [](OneTaskPerTarget /\ QueuedBehindStarted /\ Cardinality(Executing) <= 5)
    /\ <>[](\A m \in Managers : task[m] # "queued")

\* the task submitted after the fifth is executing next to four others
C22_Witness ==
    /\ Len(sTargets) > 5
    /\ Cardinality(Executing) = 5
    /\ task[sTargets[6]] = "running"

\* the id is in the registry, supported on this OS, not available, and has a
\* bootstrap command
BootstrapCase ==
    /\ imArg \in Managers
    /\ osType \in SetupOs(imArg)
    /\ ~DetectInstalledManagers(sysExecutable, path)[imArg]
    /\ InstallCmd(imArg) # <<>>

\* C24: install_manager spawns a command only for an id that is in the registry,
\* supported on the current OS, not already available and has a bootstrap command,
\* and then returns the ok flag of run_command's result; it returns
\* False with nothing spawned when the id is unknown or unsupported on this OS,
\* True with nothing spawned when the id is supported and already available, and
\* False with nothing spawned when it is supported, not available and has no
\* bootstrap command.
C24_BootstrapOnlyWhenMissing ==
    /\ imSpawned > 0 => BootstrapCase
    /\ imPc = "done" =>
        /\ BootstrapCase => imResult = imRes.ok
        /\ (imArg \notin Managers \/ osType \notin SetupOs(imArg))
              => imResult = FALSE /\ imSpawned = 0
        /\ (imArg \in Managers /\ osType \in SetupOs(imArg)
                /\ DetectInstalledManagers(sysExecutable, path)[imArg])
              => imResult = TRUE /\ imSpawned = 0
        /\ (imArg \in Managers /\ osType \in SetupOs(imArg)
                /\ ~DetectInstalledManagers(sysExecutable, path)[imArg]
                /\ InstallCmd(imArg) = <<>>)
              => imResult = FALSE /\ imSpawned = 0

\* snapd's bootstrap command was run on a linux host without snap and succeeded
C24_Witness ==
    /\ imPc = "done" /\ imArg = "snap" /\ imSpawned = 1
    /\ imRes.ok /\ imResult = TRUE

\* C25: when main has returned, its exit code is the one it returns for the same
\* outcome in the other output mode (JSON / human-readable).
C25_ExitCodeSameInBothModes ==
    exitCode # <<>> => exitCode = <<ExitCode(~jsonMode)>>

\* every package line of the file was installed
AllInstalled ==
    /\ bulkFile.exists /\ bulkFile.readable /\ bulkFile.lines # <<>>
    /\ "successful" \in DOMAIN bulkReturn
    /\ bulkReturn.successful = Len(bulkFile.lines)

\* bulk_install_from_file gave every line to install_package once, in order, and
\* its counters add up
EveryLineAttempted ==
    (bulkPc = "done" /\ "total_packages" \in DOMAIN bulkReturn) =>
        /\ bulkAttempted = bulkFile.lines
        /\ bulkReturn.total_packages = Len(bulkFile.lines)
        /\ bulkReturn.successful + bulkReturn.failed = bulkReturn.total_packages

\* C27: --install-from exits with 0 when every listed package was installed and
\* with 1 when the file is missing, empty or a package failed; every line is given
\* to install_package exactly once, and successful + failed = total_packages.
C27_BulkExitCodeAndCounts ==
    /\ EveryLineAttempted
    /\ (mainCmd = "install-from" /\ exitCode # <<>>) =>
          exitCode = IF AllInstalled THEN <<0>> ELSE <<1>>

====
